---------------------------- MODULE Spec2Model ----------------------------
(***************************************************************************)
(* A model of CFRef<T>, the RAII wrapper for Core Foundation objects of    *)
(* sbooth/CXXCFRef, in its three variants (namespaces CXXCFRef, cf and     *)
(* cxxcf), together with the part of the Core Foundation runtime it calls  *)
(* (CFRetain, CFRelease) and a caller that creates objects, constructs,    *)
(* assigns, resets, swaps and destroys wrappers.                           *)
(*                                                                         *)
(* A handle is a number 1..NumHandles, the null handle is 0.  The runtime  *)
(* keeps a reference count per handle; count 0 means the object is         *)
(* deallocated.  Every member function is an operator from a machine       *)
(* record (the wrappers' object_ fields, the reference counts, the log of  *)
(* runtime calls the function issued) to a machine record, composed the    *)
(* way the C++ composes them; an action applies one member function and    *)
(* commits the result.                                                     *)
(*                                                                         *)
(* hist is a history variable.  A run is followed unobserved (hist empty)  *)
(* through every state the program can reach with a caller that keeps the  *)
(* ownership contract; at any point one operation is observed, that is     *)
(* recorded with the state it started from and the runtime calls it        *)
(* issued, and so are the destructions that follow it.  A call that breaks *)
(* the contract (handing over a handle the caller does not own) is always  *)
(* the observed one, and a call on a deallocated object may crash the      *)
(* program or go unnoticed.                                                *)
(***************************************************************************)
EXTENDS Integers, Sequences, FiniteSets

\* Bounds of the model.
NumHandles == 2
NumWrappers == 2
MaxRC == 2

Null == 0
Handles == 1..NumHandles
Wrappers == 1..NumWrappers
\* No wrapper: a null CFRef*, a null slot address.
NoWrapper == Null
Variants == {"CXXCFRef", "cf", "cxxcf"}
\* What a call on a deallocated object (undefined behaviour) may do.
UBOutcomes == {"crash", "continue"}

VARIABLES
    variant,   \* which of the three headers the program includes
    alive,     \* alive[w]: wrapper object w is constructed and not destroyed
    object_,   \* object_[w]: the CFRef's only data member
    rc,        \* rc[h]: the runtime's reference count of h (0: deallocated)
    claims,    \* claims[h]: references on h the caller itself owns
    owed,      \* owed[h]: acquires + claims handed in - claims handed back
               \*          - releases, counted over the wrappers' calls
    misuse,    \* the caller has handed a wrapper a handle it held no claim on
    crashed,   \* a call on a deallocated object has aborted the program
    outSlot,   \* the wrapper whose slot address put() has returned and the
               \* producer has not written yet (NoWrapper: none)
    hist       \* the observation: <<>> while the run is followed unobserved,
               \* then the record of one operation and of what follows it

vars == <<variant, alive, object_, rc, claims, owed, misuse, crashed, outSlot, hist>>

--------------------------------------------------------------------------
\* The runtime.

Call(fn, h) == [fn |-> fn, h |-> h]

Count(calls, fn, h) ==
    Cardinality({i \in 1..Len(calls) : calls[i] = Call(fn, h)})

\* The machine a member function starts on.
Machine ==
    [obj |-> object_, rc |-> rc, calls |-> <<>>, eqcalls |-> <<>>, freed |-> {},
     crashed |-> FALSE, ret |-> Null, leaked |-> 0]

UB(m, ub) == IF ub = "crash" THEN [m EXCEPT !.crashed = TRUE] ELSE m

\* CFRetain(cf): increments the count and returns its argument.  A null or
\* deallocated argument is undefined behaviour.
CFRetain(m, h, ub) ==
    IF m.crashed THEN m
    ELSE LET m1 == [m EXCEPT !.calls = Append(@, Call("CFRetain", h)), !.ret = h]
         IN  IF h = Null \/ m.rc[h] = 0 THEN UB(m1, ub)
             ELSE [m1 EXCEPT !.rc[h] = @ + 1]

\* CFRelease(cf): decrements the count; at 0 the object is deallocated
\* (freed collects the objects deallocated during the operation).
CFRelease(m, h, ub) ==
    IF m.crashed THEN m
    ELSE LET m1 == [m EXCEPT !.calls = Append(@, Call("CFRelease", h))]
         IN  IF h = Null \/ m.rc[h] = 0 THEN UB(m1, ub)
             ELSE [m1 EXCEPT !.rc[h] = @ - 1,
                             !.freed = IF m.rc[h] = 1 THEN @ \cup {h} ELSE @]

\* CFEqual(cf1, cf2): whether the runtime finds the two objects equal, which
\* is for the objects' type to say (eq); an object equals itself.  A null or
\* deallocated argument is undefined behaviour.
CFEqual(m, a, b, eq, ub) ==
    IF m.crashed THEN m
    ELSE LET answer == (a = b) \/ eq
             m1 == [m EXCEPT !.eqcalls = Append(@, [a |-> a, b |-> b, answer |-> answer]),
                             !.ret = answer]
         IN  IF a = Null \/ b = Null THEN UB(m1, ub)
             ELSE IF m.rc[a] = 0 \/ m.rc[b] = 0 THEN UB(m1, ub)
             ELSE m1

\* malloc(100) whose result is discarded: a block that is never freed.
malloc(m) == IF m.crashed THEN m ELSE [m EXCEPT !.leaked = @ + 1]

--------------------------------------------------------------------------
\* The member functions of CFRef<T>.

\* Mutant of reset: returns early when handed the handle it already holds.
reset_skips_same(m, self, object, ub) ==
    IF m.crashed \/ m.obj[self] = object THEN m
    ELSE LET old == m.obj[self]
             m1 == [m EXCEPT !.obj[self] = object]
         IN  IF old # Null THEN CFRelease(m1, old, ub) ELSE m1

\* void reset(T object = nullptr):
\*   if (auto old = std::exchange(object_, object); old) CFRelease(old);
reset(m, self, object, ub) ==
    IF m.crashed THEN m
    ELSE LET old == m.obj[self]
             m1 == [m EXCEPT !.obj[self] = object]
         IN  IF old # Null THEN CFRelease(m1, old, ub) ELSE m1

\* Mutant of release: releases the object it returns.
release_releases(m, self) ==
    IF m.crashed THEN m
    ELSE LET old == m.obj[self]
             m1 == [m EXCEPT !.ret = old, !.obj[self] = Null]
         IN  IF old # Null THEN CFRelease(m1, old, "continue") ELSE m1

\* T release(): return std::exchange(object_, nullptr);
release(m, self) ==
    IF m.crashed THEN m
    ELSE [m EXCEPT !.ret = m.obj[self], !.obj[self] = Null]

\* T leak() of the cf variant: return std::exchange(object_, nullptr);
leak(m, self) ==
    IF m.crashed THEN m
    ELSE [m EXCEPT !.ret = m.obj[self], !.obj[self] = Null]

\* Mutant of the adopting constructor: retains what it is handed.
CFRef_object_retains(m, self, object) ==
    LET m1 == IF object # Null THEN CFRetain(m, object, "continue") ELSE m
    IN  IF m1.crashed THEN m1 ELSE [m1 EXCEPT !.obj[self] = object]

\* explicit CFRef(T object): object_{object}
CFRef_object(m, self, object) ==
    IF m.crashed THEN m ELSE [m EXCEPT !.obj[self] = object]

\* Mutant of the retaining constructor: stores the object without CFRetain.
CFRef_object_retain_ref_no_retain(m, self, object, ub) ==
    IF m.crashed THEN m ELSE [m EXCEPT !.obj[self] = object, !.ret = object]

\* CFRef(T object, retain_ref_t):
\*   object_{object ? static_cast<T>(CFRetain(object)) : nullptr}
CFRef_object_retain_ref(m, self, object, ub) ==
    LET m1 == IF object # Null THEN CFRetain(m, object, ub)
              ELSE [m EXCEPT !.ret = Null]
    IN  IF m1.crashed THEN m1 ELSE [m1 EXCEPT !.obj[self] = m1.ret]

\* CFRef(T object, retain_t) of the cf variant: the same member
\* initialiser, then a body that allocates a block and drops it.
CFRef_object_retain(m, self, object, ub) ==
    LET m1 == IF object # Null THEN CFRetain(m, object, ub)
              ELSE [m EXCEPT !.ret = Null]
        m2 == IF m1.crashed THEN m1 ELSE [m1 EXCEPT !.obj[self] = m1.ret]
    IN  malloc(m2)

\* The retaining constructor of the variant in use.
RetainingCtor(m, self, object, ub) ==
    IF variant = "cf" THEN CFRef_object_retain(m, self, object, ub)
    ELSE CFRef_object_retain_ref(m, self, object, ub)

\* release() of the variant in use (leak() in cf).
GiveUp(m, self) ==
    IF variant = "cf" THEN leak(m, self) ELSE release(m, self)

\* static CFRef adopt(T object): return CFRef(object);
adopt(m, self, object) == CFRef_object(m, self, object)

\* Mutant of retain: calls the adopting constructor.
retain_adopts(m, self, object, ub) == CFRef_object(m, self, object)

\* static CFRef retain(T object): return CFRef(object, retain_ref);
retain(m, self, object, ub) == RetainingCtor(m, self, object, ub)

\* Mutant of the copy constructor: takes the source's object as a move does.
CFRef_copy_steals(m, self, other, ub) ==
    LET m1 == GiveUp(m, other)
    IN  IF m1.crashed THEN m1 ELSE [m1 EXCEPT !.obj[self] = m1.ret]

\* CFRef(const CFRef& other): CFRef(other.object_, retain_ref)
CFRef_copy(m, self, other, ub) == RetainingCtor(m, self, m.obj[other], ub)

\* Mutant of copy assignment: releases its own object before it retains the
\* other's (reset(); then object_ = CFRetain(other.object_)).
operator_assign_copy_release_first(m, self, other, ub) ==
    LET m1 == reset(m, self, Null, ub)
        o  == m1.obj[other]
        m2 == IF o # Null THEN CFRetain(m1, o, ub) ELSE [m1 EXCEPT !.ret = Null]
    IN  IF m2.crashed THEN m2 ELSE [m2 EXCEPT !.obj[self] = m2.ret]

\* Mutant of copy assignment: takes the other's object away from it.
operator_assign_copy_clears_source(m, self, other, ub) ==
    LET m1 == GiveUp(m, other)
    IN  reset(m1, self, m1.ret, ub)

\* operator=(const CFRef& other):
\*   reset(other.object_ ? static_cast<T>(CFRetain(other.object_)) : nullptr);
operator_assign_copy(m, self, other, ub) ==
    LET m1 == IF m.obj[other] # Null THEN CFRetain(m, m.obj[other], ub)
              ELSE [m EXCEPT !.ret = Null]
    IN  reset(m1, self, m1.ret, ub)

\* Mutant of the move constructor: leaves the source holding its object.
CFRef_move_keeps_source(m, self, other) ==
    IF m.crashed THEN m ELSE [m EXCEPT !.obj[self] = m.obj[other]]

\* CFRef(CFRef&& other): object_{other.release()}
CFRef_move(m, self, other) ==
    LET m1 == GiveUp(m, other)
    IN  IF m1.crashed THEN m1 ELSE [m1 EXCEPT !.obj[self] = m1.ret]

\* Mutant of move assignment: reset(other.object_); other.object_ = nullptr;
operator_assign_move_clears_after(m, self, other, ub) ==
    LET m1 == reset(m, self, m.obj[other], ub)
    IN  IF m1.crashed THEN m1 ELSE [m1 EXCEPT !.obj[other] = Null]

\* Mutant of move assignment: exchanges the two objects (swap idiom).
operator_assign_move_swaps(m, self, other, ub) ==
    IF m.crashed THEN m
    ELSE [m EXCEPT !.obj[self] = m.obj[other], !.obj[other] = m.obj[self]]

\* operator=(CFRef&& other): reset(other.release());
operator_assign_move(m, self, other, ub) ==
    LET m1 == GiveUp(m, other)
    IN  reset(m1, self, m1.ret, ub)

\* Mutant of the destructor: drops the object without releasing it.
dtor_no_release(m, self, ub) ==
    IF m.crashed THEN m ELSE [m EXCEPT !.obj[self] = Null]

\* ~CFRef(): reset();
dtor(m, self, ub) == reset(m, self, Null, ub)

\* Mutant of put: returns the slot's address without resetting it.
put_no_reset(m, self, ub) ==
    IF m.crashed THEN m ELSE [m EXCEPT !.ret = self]

\* T* put() &: reset(); return &object_;   (the slot is named by its wrapper)
put(m, self, ub) ==
    LET m1 == reset(m, self, Null, ub)
    IN  IF m1.crashed THEN m1 ELSE [m1 EXCEPT !.ret = self]

\* Mutant of swap: copies the other's object over its own.
swap_one_way(m, self, other) ==
    IF m.crashed THEN m ELSE [m EXCEPT !.obj[self] = m.obj[other]]

\* void swap(CFRef& other): std::swap(object_, other.object_);
swap(m, self, other) ==
    IF m.crashed THEN m
    ELSE [m EXCEPT !.obj[self] = m.obj[other], !.obj[other] = m.obj[self]]

\* Mutant of isEqual(CFTypeRef): compares the pointers.
isEqual_pointers(m, self, other, eq, ub) ==
    IF m.crashed THEN m ELSE [m EXCEPT !.ret = (m.obj[self] = other)]

\* Mutant of isEqual(CFTypeRef): asks CFEqual without testing for null.
isEqual_unguarded(m, self, other, eq, ub) ==
    CFEqual(m, m.obj[self], other, eq, ub)

\* bool isEqual(CFTypeRef other) const:
\*   return (!object_ && (other == nullptr))
\*       || (object_ && other && CFEqual(static_cast<CFTypeRef>(object_), other));
isEqual(m, self, other, eq, ub) ==
    IF m.crashed THEN m
    ELSE IF m.obj[self] = Null /\ other = Null THEN [m EXCEPT !.ret = TRUE]
    ELSE IF m.obj[self] # Null /\ other # Null THEN CFEqual(m, m.obj[self], other, eq, ub)
    ELSE [m EXCEPT !.ret = FALSE]

\* bool isEqual(const CFRef& other) const:
\*   return isEqual(static_cast<CFTypeRef>(other.object_));
isEqual_CFRef(m, self, other, eq, ub) == isEqual(m, self, m.obj[other], eq, ub)

\* CFRef() = default and CFRef(std::nullptr_t): object_{nullptr}
CFRef_default(m, self) ==
    IF m.crashed THEN m ELSE [m EXCEPT !.obj[self] = Null]

--------------------------------------------------------------------------
\* The program: a caller applying the operations.

Init ==
    /\ variant \in Variants
    /\ alive = [w \in Wrappers |-> FALSE]
    /\ object_ = [w \in Wrappers |-> Null]
    /\ rc = [h \in Handles |-> 0]
    /\ claims = [h \in Handles |-> 0]
    /\ owed = [h \in Handles |-> 0]
    /\ misuse = FALSE
    /\ crashed = FALSE
    /\ outSlot = NoWrapper
    /\ hist = <<>>

\* An ordinary operation can be applied when the program runs, no put() is
\* waiting for its producer, and no observation has been made yet.
Running == ~crashed /\ outSlot = NoWrapper /\ hist = <<>>

\* An observation records one operation and then only what finishes its
\* scenario: the destructions of the wrappers it involved (after a
\* construction, an assignment or a release()), release() on the temporary
\* adopt() made, the producer's write after a put() and the destruction of
\* the wrapper written to; the run is not followed further.
Starters ==
    {"adopt", "retain", "copy_construct", "move_construct", "copy_assign", "move_assign",
     "release"}
Observed == hist # <<>>
CanExtend == ~crashed /\ Observed

Held(w) == IF w = NoWrapper THEN Null ELSE object_[w]

\* The record of one operation: what was called on which wrappers with which
\* argument, what the wrappers held and the counts were before, the runtime
\* calls it issued in order, the objects deallocated during it, what it
\* returned and how many blocks it allocated and dropped.
OpRecord(m, op, self, other, arg) ==
    [op |-> op, self |-> self, other |-> other, arg |-> arg,
     held |-> Held(self), oheld |-> Held(other), obj0 |-> object_, rc0 |-> rc,
     calls |-> m.calls, eqcalls |-> m.eqcalls, freed |-> m.freed, ret |-> m.ret,
     leaked |-> m.leaked,
     crashed |-> m.crashed]

\* The operation is recorded when it is observed or extends an observation.
\* A call that breaks the caller's contract (bad) is always observed: the
\* model follows a run up to its first contract violation and the
\* destructions after it.
Observe(rec, bad) ==
    \E obs \in BOOLEAN :
        /\ bad => (obs \/ Observed)
        /\ hist' = IF obs \/ Observed THEN Append(hist, rec) ELSE <<>>

\* The outcome m of an operation becomes the state.  inH is the handle the
\* caller handed over for the wrapper to own (Null: none), outH the handle
\* whose claim the wrapper handed back to the caller (Null: none), err
\* whether the call itself breaks the caller's contract.
Commit(m, op, self, other, arg, inH, outH, err) ==
    /\ \A h \in Handles : m.rc[h] <= MaxRC
    /\ object_' = m.obj
    /\ rc' = m.rc
    /\ crashed' = m.crashed
    /\ owed' = [h \in Handles |->
                  owed[h] + Count(m.calls, "CFRetain", h)
                          - Count(m.calls, "CFRelease", h)
                          + (IF inH = h THEN 1 ELSE 0)
                          - (IF outH = h THEN 1 ELSE 0)]
    /\ claims' = [h \in Handles |->
                  claims[h] - (IF inH = h /\ claims[h] > 0 THEN 1 ELSE 0)
                            + (IF outH = h THEN 1 ELSE 0)]
    /\ misuse' = (misuse \/ err \/ (inH # Null /\ claims[inH] = 0))
    /\ Observe(OpRecord(m, op, self, other, arg),
               err \/ (inH # Null /\ claims[inH] = 0))

\* CFxxxCreate(...): the runtime allocates an object (at a free address) and
\* the caller owns its one reference.
Create(h) ==
    /\ Running
    /\ rc[h] = 0
    /\ rc' = [rc EXCEPT ![h] = 1]
    /\ claims' = [claims EXCEPT ![h] = @ + 1]
    /\ Observe(OpRecord(Machine, "create", NoWrapper, NoWrapper, h), FALSE)
    /\ UNCHANGED <<variant, alive, object_, owed, misuse, crashed, outSlot>>

\* The caller gives up a reference it owns with CFRelease.
CallerRelease(h) ==
    /\ Running
    /\ claims[h] > 0
    /\ \E ub \in UBOutcomes :
         LET m == CFRelease(Machine, h, ub)
         IN  /\ rc' = m.rc
             /\ crashed' = m.crashed
             /\ Observe(OpRecord([m EXCEPT !.calls = <<>>], "caller_release",
                                  NoWrapper, NoWrapper, h), FALSE)
    /\ claims' = [claims EXCEPT ![h] = @ - 1]
    /\ UNCHANGED <<variant, alive, object_, owed, misuse, outSlot>>

DefaultConstruct(self) ==
    /\ Running
    /\ ~alive[self]
    /\ Commit(CFRef_default(Machine, self), "default", self, NoWrapper, Null, Null, Null, FALSE)
    /\ alive' = [alive EXCEPT ![self] = TRUE]
    /\ UNCHANGED <<variant, outSlot>>

\* auto w = CFRef<T>::adopt(object);  or  CFRef<T> w(object);
AdoptConstruct(self, object) ==
    /\ Running
    /\ ~alive[self]
    /\ Commit(adopt(Machine, self, object), "adopt", self, NoWrapper, object, object, Null, FALSE)
    /\ alive' = [alive EXCEPT ![self] = TRUE]
    /\ UNCHANGED <<variant, outSlot>>

\* auto w = CFRef<T>::retain(object);  or  CFRef<T> w(object, retain_ref);
\* The caller keeps whatever claim it has; handing a deallocated object is
\* the caller's error.
RetainConstruct(self, object) ==
    /\ Running
    /\ ~alive[self]
    /\ \E ub \in UBOutcomes :
         Commit(retain(Machine, self, object, ub), "retain", self, NoWrapper, object, Null, Null,
                object # Null /\ rc[object] = 0)
    /\ alive' = [alive EXCEPT ![self] = TRUE]
    /\ UNCHANGED <<variant, outSlot>>

\* CFRef<T> self(other);
CopyConstruct(self, other) ==
    /\ Running
    /\ ~alive[self] /\ alive[other]
    /\ \E ub \in UBOutcomes :
         Commit(CFRef_copy(Machine, self, other, ub), "copy_construct", self, other, Null, Null, Null, FALSE)
    /\ alive' = [alive EXCEPT ![self] = TRUE]
    /\ UNCHANGED <<variant, outSlot>>

\* CFRef<T> self(std::move(other));
MoveConstruct(self, other) ==
    /\ Running
    /\ ~alive[self] /\ alive[other]
    /\ Commit(CFRef_move(Machine, self, other), "move_construct", self, other, Null, Null, Null, FALSE)
    /\ alive' = [alive EXCEPT ![self] = TRUE]
    /\ UNCHANGED <<variant, outSlot>>

\* self = other;   (other may be self)
CopyAssign(self, other) ==
    /\ Running
    /\ alive[self] /\ alive[other]
    /\ \E ub \in UBOutcomes :
         Commit(operator_assign_copy(Machine, self, other, ub), "copy_assign", self, other, Null, Null, Null, FALSE)
    /\ UNCHANGED <<variant, alive, outSlot>>

\* self = std::move(other);   (other may be self)
MoveAssign(self, other) ==
    /\ Running
    /\ alive[self] /\ alive[other]
    /\ \E ub \in UBOutcomes :
         Commit(operator_assign_move(Machine, self, other, ub), "move_assign", self, other, Null, Null, Null, FALSE)
    /\ UNCHANGED <<variant, alive, outSlot>>

\* self goes out of scope.
Destroy(self) ==
    /\ \/ Running
       \/ /\ CanExtend /\ outSlot = NoWrapper
          /\ hist[1].op \in Starters
          /\ self \in {hist[1].self, hist[1].other}
       \/ /\ CanExtend /\ outSlot = NoWrapper
          /\ hist[1].op = "put"
          /\ self = hist[1].self
    /\ alive[self]
    /\ \E ub \in UBOutcomes :
         Commit(dtor(Machine, self, ub), "destroy", self, NoWrapper, Null, Null, Null, FALSE)
    /\ alive' = [alive EXCEPT ![self] = FALSE]
    /\ UNCHANGED <<variant, outSlot>>

\* self.reset(object);   (object Null: self.reset())
Reset(self, object) ==
    /\ Running
    /\ alive[self]
    /\ \E ub \in UBOutcomes :
         Commit(reset(Machine, self, object, ub), "reset", self, NoWrapper, object, object, Null, FALSE)
    /\ UNCHANGED <<variant, alive, outSlot>>

\* Factory(..., self.put()): put() returns the slot's address ...
Put(self) ==
    /\ Running
    /\ alive[self]
    /\ \E ub \in UBOutcomes :
         LET m == put(Machine, self, ub)
         IN  /\ Commit(m, "put", self, NoWrapper, Null, Null, Null, FALSE)
             /\ outSlot' = IF m.crashed THEN NoWrapper ELSE m.ret
    /\ UNCHANGED <<variant, alive>>

\* ... and the producer writes a handle it owns (or null, on failure)
\* through the address.
ProducerWrite(object) ==
    /\ ~crashed
    /\ outSlot # NoWrapper
    /\ ~Observed \/ CanExtend
    /\ Commit([Machine EXCEPT !.obj[outSlot] = object], "deposit", outSlot, NoWrapper,
              object, object, Null, FALSE)
    /\ outSlot' = NoWrapper
    /\ UNCHANGED <<variant, alive>>

\* self.swap(other);   (other may be self)
Swap(self, other) ==
    /\ Running
    /\ alive[self] /\ alive[other]
    /\ Commit(swap(Machine, self, other), "swap", self, other, Null, Null, Null, FALSE)
    /\ UNCHANGED <<variant, alive, outSlot>>

\* T h = self.release();   (self.leak() in cf): the caller owns the result.
Release(self) ==
    /\ \/ Running
       \/ /\ CanExtend /\ Len(hist) = 1
          /\ hist[1].op = "adopt"
          /\ self = hist[1].self
    /\ alive[self]
    /\ LET m == GiveUp(Machine, self)
       IN  Commit(m, "release", self, NoWrapper, Null, Null, m.ret, FALSE)
    /\ UNCHANGED <<variant, alive, outSlot>>

\* self.isEqual(other) on two wrappers (cf and cxxcf; CXXCFRef has none).
IsEqual(self, other) ==
    /\ Running
    /\ variant # "CXXCFRef"
    /\ alive[self] /\ alive[other]
    /\ \E eq \in BOOLEAN, ub \in UBOutcomes :
         Commit(isEqual_CFRef(Machine, self, other, eq, ub), "isEqual", self, other,
                Null, Null, Null, FALSE)
    /\ UNCHANGED <<variant, alive, outSlot>>

\* self.isEqual(object) on a raw handle; a deallocated object is the caller's
\* error.
IsEqualRaw(self, object) ==
    /\ Running
    /\ variant # "CXXCFRef"
    /\ alive[self]
    /\ \E eq \in BOOLEAN, ub \in UBOutcomes :
         Commit(isEqual(Machine, self, object, eq, ub), "isEqualRaw", self, NoWrapper,
                object, Null, Null, object # Null /\ rc[object] = 0)
    /\ UNCHANGED <<variant, alive, outSlot>>

Next ==
    \/ \E h \in Handles : Create(h)
    \/ \E h \in Handles : CallerRelease(h)
    \/ \E w \in Wrappers : DefaultConstruct(w)
    \/ \E w \in Wrappers, h \in Handles \cup {Null} : AdoptConstruct(w, h)
    \/ \E w \in Wrappers, h \in Handles \cup {Null} : RetainConstruct(w, h)
    \/ \E w, o \in Wrappers : CopyConstruct(w, o)
    \/ \E w, o \in Wrappers : MoveConstruct(w, o)
    \/ \E w, o \in Wrappers : CopyAssign(w, o)
    \/ \E w, o \in Wrappers : MoveAssign(w, o)
    \/ \E w \in Wrappers : Destroy(w)
    \/ \E w \in Wrappers, h \in Handles \cup {Null} : Reset(w, h)
    \/ \E w \in Wrappers : Put(w)
    \/ \E h \in Handles \cup {Null} : ProducerWrite(h)
    \/ \E w, o \in Wrappers : Swap(w, o)
    \/ \E w \in Wrappers : Release(w)
    \/ \E w, o \in Wrappers : IsEqual(w, o)
    \/ \E w \in Wrappers, h \in Handles \cup {Null} : IsEqualRaw(w, h)

Spec == Init /\ [][Next]_vars

--------------------------------------------------------------------------
\* Vocabulary of the properties.

\* The number of live wrappers holding h.
Holders(h) == Cardinality({w \in Wrappers : alive[w] /\ object_[w] = h})

AllDestroyed == \A w \in Wrappers : ~alive[w]

\* The calls "one acquire on h" and "one release on h" (none for null).
Acquire(h) == IF h = Null THEN <<>> ELSE <<Call("CFRetain", h)>>
Rel(h) == IF h = Null THEN <<>> ELSE <<Call("CFRelease", h)>>

\* The observation is of operation op (its first record).
Saw(op) == Observed /\ hist[1].op = op

\* The observation has just recorded its first operation: the state is the
\* one the operation left.
JustAfter(op) == Saw(op) /\ Len(hist) = 1

\* The calls the destructions after the observed operation issued, in order.
DestroyCalls ==
    IF Len(hist) = 1 THEN <<>>
    ELSE IF Len(hist) = 2 THEN hist[2].calls
    ELSE hist[2].calls \o hist[3].calls

\* Both wrappers of the observed operation have been destroyed since.
BothDestroyed ==
    /\ Len(hist) = 3
    /\ {hist[2].self, hist[3].self} = {hist[1].self, hist[1].other}

\* The observed operation's wrapper has been destroyed right after it.
SelfDestroyed ==
    Len(hist) >= 2 /\ hist[2].op = "destroy" /\ hist[2].self = hist[1].self

\* No prefix of calls releases h more often than it acquires it.
NoReleaseBeforeAcquire(calls, h) ==
    \A n \in 0..Len(calls) :
        Count(SubSeq(calls, 1, n), "CFRelease", h) <= Count(SubSeq(calls, 1, n), "CFRetain", h)

--------------------------------------------------------------------------
\* C1: as long as the caller has only handed wrappers handles it held a
\* claim on, every handle's reference count is at least the number of live
\* wrappers holding it (so no held handle is deallocated).
C1_CountCoversHolders ==
    ~misuse => \A h \in Handles : rc[h] >= Holders(h)

\* Two wrappers hold the same handle.
C1_Witness ==
    /\ ~misuse
    /\ \E h \in Handles : Holders(h) = 2 /\ rc[h] >= 2

\* C2: when all wrappers are destroyed, for every handle the releases the
\* wrappers issued equal the acquires they issued plus the claims handed to
\* them minus the claims they handed back.
C2_Balanced ==
    (AllDestroyed /\ ~crashed) => \A h \in Handles : owed[h] = 0

\* The last wrapper has just been destroyed and released its handle.
C2_Witness ==
    /\ AllDestroyed /\ ~crashed
    /\ Len(hist) = 2
    /\ hist[2].op = "destroy" /\ hist[2].calls # <<>>
    /\ \A h \in Handles : owed[h] = 0

\* C3: copy construction from a wrapper holding h issues one acquire on h
\* (none for null) and no release, and leaves both wrappers holding h;
\* destroying both afterwards, in either order, issues two releases on h,
\* one per wrapper (none for null).
C3_CopyLaw ==
    Saw("copy_construct") =>
        LET r == hist[1]
            h == r.oheld
        IN  /\ r.calls = Acquire(h)
            /\ JustAfter("copy_construct") =>
                   object_[r.self] = h /\ object_[r.other] = h
            /\ Len(hist) >= 2 => hist[2].calls = Rel(h)
            /\ BothDestroyed => DestroyCalls = Rel(h) \o Rel(h)

\* A wrapper holding a handle was copied and both copies were destroyed.
C3_Witness ==
    /\ Saw("copy_construct") /\ BothDestroyed
    /\ hist[1].oheld # Null

\* C4: move construction from a wrapper holding h issues no call, leaves the
\* new wrapper holding h and the source empty; destroying both afterwards
\* issues one release on h in total, by the new wrapper's destruction.
C4_MoveLaw ==
    Saw("move_construct") =>
        LET r == hist[1]
            h == r.oheld
        IN  /\ r.calls = <<>>
            /\ JustAfter("move_construct") =>
                   object_[r.self] = h /\ object_[r.other] = Null
            /\ \A i \in 2..Len(hist) :
                   hist[i].calls = IF hist[i].self = r.self THEN Rel(h) ELSE <<>>
            /\ BothDestroyed => DestroyCalls = Rel(h)

\* A wrapper holding a handle was moved from and both were destroyed.
C4_Witness ==
    /\ Saw("move_construct") /\ BothDestroyed
    /\ hist[1].oheld # Null

\* C5: copy- or move-assigning a wrapper to itself leaves it holding its
\* handle, with the handle's count unchanged, the object not deallocated
\* and never released before being acquired during the assignment; its
\* destruction afterwards issues one release (none for null).
C5_SelfAssign ==
    ((Saw("copy_assign") \/ Saw("move_assign")) /\ hist[1].self = hist[1].other) =>
        LET r == hist[1]
            h == r.held
        IN  /\ JustAfter(r.op) =>
                   /\ object_[r.self] = h
                   /\ h # Null => rc[h] = r.rc0[h]
            /\ h \notin r.freed
            /\ NoReleaseBeforeAcquire(r.calls, h)
            /\ SelfDestroyed => hist[2].calls = Rel(h)

\* A wrapper holding the only reference was assigned to itself, then destroyed.
C5_Witness ==
    /\ Saw("move_assign") /\ hist[1].self = hist[1].other
    /\ hist[1].held # Null /\ hist[1].rc0[hist[1].held] = 1
    /\ SelfDestroyed

\* C6: copy assignment W2 = W, W holding h and W2 holding g, issues one
\* acquire on h (none for null) and then one release on g (none for null),
\* in that order; afterwards W2 holds h and W still holds h.
C6_CopyAssign ==
    JustAfter("copy_assign") =>
        LET r == hist[1]
        IN  /\ r.calls = Acquire(r.oheld) \o Rel(r.held)
            /\ object_[r.self] = r.oheld
            /\ object_[r.other] = r.oheld

\* Two wrappers holding different handles, one copy-assigned to the other.
C6_Witness ==
    /\ JustAfter("copy_assign")
    /\ hist[1].self # hist[1].other
    /\ hist[1].held # Null /\ hist[1].oheld # Null
    /\ hist[1].held # hist[1].oheld

\* C7: move assignment W2 = move(W) between distinct wrappers issues one
\* release on the handle W2 held (none if empty) and no acquire; afterwards
\* W2 holds what W held and W is empty.
C7_MoveAssign ==
    (JustAfter("move_assign") /\ hist[1].self # hist[1].other) =>
        LET r == hist[1]
        IN  /\ r.calls = Rel(r.held)
            /\ object_[r.self] = r.oheld
            /\ object_[r.other] = Null

\* Two wrappers holding handles, one move-assigned to the other.
C7_Witness ==
    /\ JustAfter("move_assign")
    /\ hist[1].self # hist[1].other
    /\ hist[1].held # Null /\ hist[1].oheld # Null

\* C8: adopt construction stores its argument unchanged and issues no call;
\* destroying the wrapper right afterwards issues one release on the
\* argument (none for null).
C8_Adopt ==
    Saw("adopt") =>
        LET r == hist[1]
        IN  /\ r.calls = <<>>
            /\ JustAfter("adopt") => object_[r.self] = r.arg
            /\ SelfDestroyed => hist[2].calls = Rel(r.arg)

\* A handle was adopted and the wrapper destroyed.
C8_Witness ==
    /\ Saw("adopt") /\ SelfDestroyed
    /\ hist[1].arg # Null

\* C9: retain construction on a non-null handle issues one acquire on it and
\* stores the handle the call returns, and the wrapper's destruction issues
\* one release on it; on null it issues no call and the wrapper is empty.
C9_Retain ==
    Saw("retain") =>
        LET r == hist[1]
        IN  /\ r.calls = Acquire(r.arg)
            /\ (JustAfter("retain") /\ ~r.crashed) =>
                   /\ object_[r.self] = r.arg
                   /\ object_[r.self] = r.ret
            /\ SelfDestroyed => hist[2].calls = Rel(r.arg)

\* A handle was retained and the wrapper destroyed.
C9_Witness ==
    /\ Saw("retain") /\ SelfDestroyed
    /\ hist[1].arg # Null

\* C10: reset(n) on a wrapper holding g stores n as it is, with no acquire,
\* and issues one release on g (none for null); reset() leaves the wrapper
\* empty.  This holds for every n, n = g included.
C10_Reset ==
    JustAfter("reset") =>
        LET r == hist[1]
        IN  /\ r.calls = Rel(r.held)
            /\ object_[r.self] = r.arg

\* reset(g) on the wrapper holding the only reference on g: the wrapper
\* stores g, which has been deallocated.
C10_Witness ==
    /\ JustAfter("reset")
    /\ hist[1].arg # Null /\ hist[1].arg = hist[1].held
    /\ hist[1].arg \in hist[1].freed
    /\ object_[hist[1].self] = hist[1].arg

\* C11: put() releases the handle held before once (none for null), leaves
\* the slot null and returns the slot's address; after the producer writes
\* n through it the wrapper holds n, no acquire having been issued, and the
\* wrapper's destruction then releases n once.
C11_Put ==
    Saw("put") =>
        LET r == hist[1]
        IN  /\ r.calls = Rel(r.held)
            /\ r.ret = r.self
            /\ JustAfter("put") => (object_[r.self] = Null /\ outSlot = r.self)
            /\ Len(hist) >= 2 =>
                   /\ hist[2].op = "deposit" /\ hist[2].self = r.self
                   /\ hist[2].calls = <<>>
                   /\ Len(hist) = 2 => object_[r.self] = hist[2].arg
            /\ Len(hist) = 3 =>
                   /\ hist[3].op = "destroy" /\ hist[3].self = r.self
                   /\ hist[3].calls = Rel(hist[2].arg)

\* put() on a wrapper holding a handle, a handle written through the slot,
\* and the wrapper destroyed.
C11_Witness ==
    /\ Saw("put") /\ Len(hist) = 3
    /\ hist[1].held # Null
    /\ hist[2].arg # Null

\* C12: release() (leak() in cf) returns the handle the wrapper held, leaves
\* the wrapper empty and issues no call, so that the wrapper's destruction
\* issues none either; adopt(h).release() returns h with every reference
\* count unchanged.
C12_Release ==
    /\ \A i \in 1..Len(hist) :
           hist[i].op = "release" =>
               /\ hist[i].calls = <<>>
               /\ hist[i].ret = hist[i].held
               /\ i = Len(hist) => (object_[hist[i].self] = Null /\ rc = hist[i].rc0)
               /\ (i < Len(hist) /\ hist[i+1].self = hist[i].self) => hist[i+1].calls = <<>>
    /\ (Saw("adopt") /\ Len(hist) >= 2 /\ hist[2].op = "release") =>
           /\ hist[2].ret = hist[1].arg
           /\ Len(hist) = 2 => rc = hist[1].rc0

\* adopt(h).release() on the only reference on h, then the destruction of
\* the temporary.
C12_Witness ==
    /\ Saw("adopt") /\ Len(hist) = 3
    /\ hist[2].op = "release" /\ hist[3].op = "destroy"
    /\ hist[1].arg # Null /\ rc[hist[1].arg] = 1

\* The number of claims on h in a function from wrappers to handles.
Claims(obj, h) == Cardinality({w \in Wrappers : obj[w] = h})

\* C13: swap exchanges the handles of the two wrappers and issues no call:
\* every reference count and the number of wrappers holding each handle
\* are unchanged; a wrapper swapped with itself holds what it held.
C13_Swap ==
    JustAfter("swap") =>
        LET r == hist[1]
        IN  /\ r.calls = <<>>
            /\ object_[r.self] = r.oheld
            /\ object_[r.other] = r.held
            /\ \A w \in Wrappers \ {r.self, r.other} : object_[w] = r.obj0[w]
            /\ rc = r.rc0
            /\ \A h \in Handles : Claims(object_, h) = Claims(r.obj0, h)
            /\ r.self = r.other => object_[r.self] = r.held

\* Two wrappers holding different handles were swapped.
C13_Witness ==
    /\ JustAfter("swap")
    /\ hist[1].self # hist[1].other
    /\ hist[1].held # Null /\ hist[1].oheld # Null
    /\ hist[1].held # hist[1].oheld

\* The handle a recorded isEqual compared the wrapper's with.
Compared(r) == IF r.op = "isEqual" THEN r.oheld ELSE r.arg

\* C14: for both isEqual overloads the result is true when both handles are
\* null, false when exactly one is null, and otherwise the answer of the
\* runtime's equality primitive on the two handles; isEqual changes no
\* wrapper and no reference count.
C14_IsEqual ==
    ((JustAfter("isEqual") \/ JustAfter("isEqualRaw")) /\ ~hist[1].crashed) =>
        LET r == hist[1]
            a == r.held
            b == Compared(r)
        IN  /\ (a = Null /\ b = Null) => (r.ret = TRUE /\ r.eqcalls = <<>>)
            /\ ((a = Null) # (b = Null)) => (r.ret = FALSE /\ r.eqcalls = <<>>)
            /\ (a # Null /\ b # Null) =>
                   /\ Len(r.eqcalls) = 1
                   /\ r.eqcalls[1].a = a /\ r.eqcalls[1].b = b
                   /\ r.ret = r.eqcalls[1].answer
            /\ r.calls = <<>>
            /\ object_ = r.obj0
            /\ rc = r.rc0

\* Two wrappers holding different objects that the runtime finds equal.
C14_Witness ==
    /\ JustAfter("isEqual")
    /\ hist[1].held # Null /\ hist[1].oheld # Null
    /\ hist[1].held # hist[1].oheld
    /\ hist[1].ret = TRUE

\* Wrapper w held a handle before the recorded operation and holds none
\* after it.
BecameEmpty(r, w) == r.obj0[w] # Null /\ object_[w] = Null

\* The explicit clearing operations and destruction, applied to w.
Cleared(r, w) ==
    /\ w = r.self
    /\ \/ r.op \in {"put", "release", "destroy"}
       \/ r.op = "reset" /\ r.arg = Null

\* C15 as stated: a wrapper is Empty after default construction, and a
\* wrapper holding a handle becomes Empty only by reset to null, put,
\* release/leak or destruction.
C15_OnlyClearing ==
    Len(hist) = 1 =>
        LET r == hist[1]
        IN  /\ r.op = "default" => object_[r.self] = Null
            /\ \A w \in Wrappers : BecameEmpty(r, w) => Cleared(r, w)

\* C15, amended: a wrapper is Empty after default construction, and a
\* wrapper holding a handle becomes Empty only by reset to null, put,
\* release/leak or destruction, by being the source of a move construction
\* or move assignment, by a swap with an Empty wrapper, or by a copy or
\* move assignment from an Empty wrapper.
C15_TwoStates ==
    Len(hist) = 1 =>
        LET r == hist[1]
        IN  /\ r.op = "default" => object_[r.self] = Null
            /\ \A w \in Wrappers :
                   BecameEmpty(r, w) =>
                       \/ Cleared(r, w)
                       \/ /\ r.op \in {"move_construct", "move_assign"}
                          /\ w = r.other /\ r.other # r.self
                       \/ /\ r.op = "swap"
                          /\ \/ w = r.self /\ r.oheld = Null
                             \/ w = r.other /\ r.held = Null
                       \/ /\ r.op \in {"copy_assign", "move_assign"}
                          /\ w = r.self /\ r.oheld = Null

\* A wrapper holding a handle was moved from and is Empty.
C15_Witness ==
    /\ JustAfter("move_construct")
    /\ hist[1].oheld # Null
    /\ object_[hist[1].other] = Null /\ alive[hist[1].other]

\* The machine the recorded operation started on.
Replay(r) ==
    [obj |-> r.obj0, rc |-> r.rc0, calls |-> <<>>, eqcalls |-> <<>>, freed |-> {},
     crashed |-> FALSE, ret |-> Null, leaked |-> 0]

\* The recorded operation left what outcome m is.
SameOutcome(r, m) ==
    /\ m.obj = object_ /\ m.rc = rc
    /\ m.calls = r.calls /\ m.ret = r.ret
    /\ m.crashed = r.crashed
    /\ m.leaked = r.leaked

\* C16: the variants are equivalent on their common operations: retain
\* construction, copy construction and release/leak, which each header
\* writes for itself, leave the handles, counts, calls and result the cxxcf
\* header's code leaves from the same state, and no operation of any
\* variant has another external effect (no block allocated and dropped).
C16_VariantsEquivalent ==
    /\ \A i \in 1..Len(hist) : hist[i].leaked = 0
    /\ JustAfter("retain") =>
           \E ub \in UBOutcomes :
               SameOutcome(hist[1], CFRef_object_retain_ref(Replay(hist[1]), hist[1].self,
                                                            hist[1].arg, ub))
    /\ JustAfter("copy_construct") =>
           \E ub \in UBOutcomes :
               SameOutcome(hist[1], CFRef_object_retain_ref(Replay(hist[1]), hist[1].self,
                                                            hist[1].oheld, ub))
    /\ JustAfter("release") =>
           SameOutcome(hist[1], release(Replay(hist[1]), hist[1].self))

\* C17: no wrapper operation calls CFRetain, CFRelease or CFEqual with a
\* null argument.
C17_NoNullArgument ==
    \A i \in 1..Len(hist) :
        /\ \A k \in 1..Len(hist[i].calls) : hist[i].calls[k].h # Null
        /\ \A k \in 1..Len(hist[i].eqcalls) :
               hist[i].eqcalls[k].a # Null /\ hist[i].eqcalls[k].b # Null

\* A wrapper holding an object was compared with an Empty one: no call.
C17_Witness ==
    /\ JustAfter("isEqual")
    /\ hist[1].held # Null /\ hist[1].oheld = Null
    /\ hist[1].eqcalls = <<>> /\ hist[1].ret = FALSE

==========================================================================
